---- MODULE Spec2Model ----
(***************************************************************************)
(* The comment store of src/comment_system.py: posts, the comment tree,    *)
(* the global index, the per-user lists, the two id counters and the one   *)
(* threading.Lock every public operation takes.                            *)
(*                                                                         *)
(* Comment objects are held in an arena keyed by id: `comments` is the     *)
(* dict self.comments (its keys are the index, its values the objects),    *)
(* and Post.comments / Comment.replies hold the ids of the objects they    *)
(* reference.  Comment.timestamp is never read by the code and is left     *)
(* out.  Each thread runs public operations one after the other; a call    *)
(* is one step that takes the lock and runs the body of the `with` block   *)
(* up to its return statement (or up to the next blocking lock             *)
(* acquisition), and the return that leaves the `with` block and releases  *)
(* the lock is a second step.                                              *)
(***************************************************************************)
EXTENDS Integers, Sequences, FiniteSets, TLC

(* ------------------------------ bounds -------------------------------- *)
MaxPosts == 2
MaxComments == 2
MaxVote == 1
MaxChainComments == 6
MaxThreadComments == 12
MaxViewComments == 4
MaxRaceComments == 3
MaxExpandComments == 13

(* ------------------------- program constants -------------------------- *)
\* `if parent_depth >= 4` (comment_system.py:82)
MaxDepth == 4
\* `self._count_total_replies(comment) > 10` (comment_system.py:65)
CollapseThreshold == 10
\* Optional[int] = None: ids start at 1, so 0 stands for None
None == 0

Threads == {"t1", "t2"}
Free == "free"
Whitespace == {" ", "\t", "\n"}
Title == "T"
Text == <<"h", "i">>

VARIABLES
    posts,            \* self.posts: post id -> [title, comments (ids, in order)]
    comments,         \* self.comments: comment id -> Comment
    user_comments,    \* self.user_comments: user -> list of comment ids
    next_comment_id,  \* self.next_comment_id
    next_post_id,     \* self.next_post_id
    lock,             \* self.lock: Free, or the thread that acquired it
    stack,            \* per thread: the frames of the calls in progress
    post_ids,         \* history: ids returned by create_post, in lock order
    comment_ids,      \* history: ids returned by add_comment, in lock order
    vote_trail        \* history: <<id, vote_count before, by>> of the latest
                      \* two votes on indexed comments, the latest first,
                      \* where votes are traced

store == <<posts, comments, user_comments, next_comment_id, next_post_id>>
hist == <<post_ids, comment_ids>>
vars == <<posts, comments, user_comments, next_comment_id, next_post_id,
          lock, stack, post_ids, comment_ids, vote_trail>>

(* ------------------------------ helpers ------------------------------- *)
Contains(s, x) == \E i \in 1..Len(s) : s[i] = x

\* list.remove(x): drops the first element equal to x
RECURSIVE RemoveFirst(_, _)
RemoveFirst(s, x) ==
    IF s = <<>> THEN <<>>
    ELSE IF Head(s) = x THEN Tail(s)
    ELSE <<Head(s)>> \o RemoveFirst(Tail(s), x)

\* str.strip(): drops leading and trailing whitespace
RECURSIVE LStrip(_)
LStrip(s) ==
    IF s # <<>> /\ Head(s) \in Whitespace THEN LStrip(Tail(s)) ELSE s

RECURSIVE RStrip(_)
RStrip(s) ==
    IF s # <<>> /\ s[Len(s)] \in Whitespace
    THEN RStrip(SubSeq(s, 1, Len(s) - 1)) ELSE s

\* variant: the content is tested as it is given
Strip_identity(s) == s

Strip(s) == RStrip(LStrip(s))

\* Comment(id, user, content, timestamp, parent_comment_id) with the
\* dataclass defaults replies = [], vote_count = 0, collapsed = False
NewComment(user, content, parent_comment_id) ==
    [user |-> user, content |-> content,
     parent_comment_id |-> parent_comment_id,
     replies |-> <<>>, vote_count |-> 0, collapsed |-> FALSE]

\* Post(id, title, comment_system): comments = []
NewPost(title) == [title |-> title, comments |-> <<>>]

\* _get_comment_depth: the while loop over parent links through the index
RECURSIVE GetCommentDepth(_, _)
GetCommentDepth(cs, current_id) ==
    IF current_id = None \/ current_id \notin DOMAIN cs THEN 0
    ELSE LET parent == cs[current_id].parent_comment_id IN
         IF parent # None THEN 1 + GetCommentDepth(cs, parent) ELSE 0

\* variant: counts the parent's level, not its depth
DepthExceeded_levels(parent_depth) == parent_depth + 1 >= MaxDepth

\* `if parent_depth >= 4: return None`
DepthExceeded(parent_depth) == parent_depth >= MaxDepth

\* _count_total_replies: len(replies) plus the count of every reply
RECURSIVE CountTotalReplies(_, _), SumReplies(_, _)
SumReplies(cs, rs) ==
    IF rs = <<>> THEN 0
    ELSE CountTotalReplies(cs, Head(rs)) + SumReplies(cs, Tail(rs))

CountTotalReplies(cs, id) ==
    IF id \notin DOMAIN cs THEN 0
    ELSE Len(cs[id].replies) + SumReplies(cs, cs[id].replies)

\* variants: only the direct replies counted; the threshold included
ShouldCollapseThread_direct(cs, id) == Len(cs[id].replies) > CollapseThreshold

ShouldCollapseThread_inclusive(cs, id) ==
    CountTotalReplies(cs, id) >= CollapseThreshold

\* should_collapse_thread
ShouldCollapseThread(cs, id) == CountTotalReplies(cs, id) > CollapseThreshold

\* variant: the replies of a collapsed comment are listed too
RECURSIVE FlattenComments_all(_, _)
FlattenComments_all(cs, ids) ==
    IF ids = <<>> THEN <<>>
    ELSE LET c == Head(ids) IN
         <<c>> \o (IF c \in DOMAIN cs
                   THEN FlattenComments_all(cs, cs[c].replies) ELSE <<>>)
              \o FlattenComments_all(cs, Tail(ids))

\* _flatten_comments: pre-order, skipping the replies of collapsed comments
RECURSIVE FlattenComments(_, _)
FlattenComments(cs, ids) ==
    IF ids = <<>> THEN <<>>
    ELSE LET c == Head(ids) IN
         <<c>> \o (IF c \in DOMAIN cs /\ ~cs[c].collapsed
                   THEN FlattenComments(cs, cs[c].replies) ELSE <<>>)
              \o FlattenComments(cs, Tail(ids))

\* variant: the thread that holds the lock may take it again, and its inner
\* return unlocks it
LockAvailable_owner(t) == lock \in {Free, t}

\* threading.Lock is not re-entrant: acquire() waits until it is unlocked,
\* whoever locked it
LockAvailable(t) == lock = Free

(* ------------------------------ frames -------------------------------- *)
\* A frame is one call in progress.  pc: "ret" = at a return statement
\* inside the `with` block, "early" = at the return before the lock is
\* taken, "loop" = delete_comment at its `for reply in replies_to_delete`.
Frame(name) ==
    [name |-> name, pc |-> "ret",
     post_id |-> None, user |-> "", content |-> <<>>,
     parent_comment_id |-> None, comment_id |-> None, view_type |-> "",
     rest |-> <<>>,
     ret_id |-> None, ret_ok |-> FALSE, ret_list |-> <<>>, exc |-> ""]

Idle(t) == stack[t] = <<>>
Top(t) == stack[t][Len(stack[t])]
Push(t, fr) == stack' = [stack EXCEPT ![t] = Append(@, fr)]
SetTop(t, fr) == stack' = [stack EXCEPT ![t][Len(stack[t])] = fr]

Init ==
    /\ posts = <<>>
    /\ comments = <<>>
    /\ user_comments = [u \in {} |-> <<>>]
    /\ next_comment_id = 1
    /\ next_post_id = 1
    /\ lock = Free
    /\ stack = [t \in Threads |-> <<>>]
    /\ post_ids = <<>>
    /\ comment_ids = <<>>
    /\ vote_trail = <<>>

(* ----------------------------- operations ----------------------------- *)
\* variant: the counter is left as it is
BumpPostId_forgotten == next_post_id

\* `self.next_post_id += 1`
BumpPostId == next_post_id + 1

\* create_post
CreatePost(t, title) ==
    /\ Idle(t)
    /\ LockAvailable(t)
    /\ lock' = t
    /\ LET post_id == next_post_id IN
       /\ next_post_id' = BumpPostId
       /\ posts' = [p \in DOMAIN posts \cup {post_id} |->
                      IF p = post_id THEN NewPost(title) ELSE posts[p]]
       /\ post_ids' = Append(post_ids, post_id)
       /\ Push(t, [Frame("create_post") EXCEPT !.ret_id = post_id])
    /\ UNCHANGED <<comments, user_comments, next_comment_id, comment_ids,
                   vote_trail>>

\* variant: the lock is unlocked by hand before a normal return and stays
\* locked when the call raises
Return_locked_on_raise(t) ==
    /\ ~Idle(t)
    /\ Top(t).pc \in {"ret", "early"}
    /\ lock' = IF Top(t).pc = "ret" /\ Top(t).exc = "" THEN Free ELSE lock
    /\ LET n == Len(stack[t]) IN
       stack' = [stack EXCEPT ![t] =
                   IF n = 1 THEN <<>>
                   ELSE Append(SubSeq(@, 1, n - 2),
                               [@[n - 1] EXCEPT !.rest = Tail(@)])]
    /\ UNCHANGED <<store, hist, vote_trail>>

\* leaving the `with` block releases the lock; the return before the block
\* (add_comment's input check) never took it.  A nested call that returns
\* lets the caller's loop go on to the next reply.
Return(t) ==
    /\ ~Idle(t)
    /\ Top(t).pc \in {"ret", "early"}
    /\ lock' = IF Top(t).pc = "ret" THEN Free ELSE lock
    /\ LET n == Len(stack[t]) IN
       stack' = [stack EXCEPT ![t] =
                   IF n = 1 THEN <<>>
                   ELSE Append(SubSeq(@, 1, n - 2),
                               [@[n - 1] EXCEPT !.rest = Tail(@)])]
    /\ UNCHANGED <<store, hist, vote_trail>>

\* add_comment's checks under the lock: the post, the parent, its depth
AddRejected(post_id, parent_comment_id) ==
    \/ post_id \notin DOMAIN posts
    \/ /\ parent_comment_id # None
       /\ \/ parent_comment_id \notin DOMAIN comments
          \/ DepthExceeded(GetCommentDepth(comments, parent_comment_id))

\* `if not user or not content.strip()`
InputInvalid(user, content) == user = "" \/ Strip(content) = <<>>

\* variant: the id is taken from the size of the index
NewCommentId_by_size == Cardinality(DOMAIN comments) + 1

\* `comment_id = self.next_comment_id`
NewCommentId == next_comment_id

\* self.user_comments[user].append(comment_id), creating the list if needed
UserAppend(uc, user, comment_id) ==
    [u \in DOMAIN uc \cup {user} |->
        IF u = user
        THEN Append(IF u \in DOMAIN uc THEN uc[u] ELSE <<>>, comment_id)
        ELSE uc[u]]

\* variant: the newest reply is put first
AppendReply_front(replies, comment_id) == <<comment_id>> \o replies

\* `self.comments[parent_comment_id].replies.append(comment)`
AppendReply(replies, comment_id) == Append(replies, comment_id)

\* c is parent_comment_id or one of its ancestors in cs
RECURSIVE OnParentChain(_, _, _)
OnParentChain(cs, c, parent_comment_id) ==
    /\ parent_comment_id \in DOMAIN cs
    /\ \/ c = parent_comment_id
       \/ OnParentChain(cs, c, cs[parent_comment_id].parent_comment_id)

\* variant: every comment above the new one is tested and collapsed
AutoCollapse_ancestors(cs, parent_comment_id) ==
    [c \in DOMAIN cs |->
        IF OnParentChain(cs, c, parent_comment_id) /\ ShouldCollapseThread(cs, c)
        THEN [cs[c] EXCEPT !.collapsed = TRUE]
        ELSE cs[c]]

\* variant: the parent is collapsed whatever the count
AutoCollapse_always(cs, parent_comment_id) ==
    [cs EXCEPT ![parent_comment_id].collapsed = TRUE]

\* `if self.should_collapse_thread(parent): parent.collapsed = True`
AutoCollapse(cs, parent_comment_id) ==
    IF ShouldCollapseThread(cs, parent_comment_id)
    THEN [cs EXCEPT ![parent_comment_id].collapsed = TRUE]
    ELSE cs

\* add_comment
AddComment(t, post_id, user, content, parent_comment_id) ==
    /\ Idle(t)
    /\ LET call == [Frame("add_comment") EXCEPT
                      !.post_id = post_id, !.user = user, !.content = content,
                      !.parent_comment_id = parent_comment_id]
       IN
       IF InputInvalid(user, content)
       THEN /\ Push(t, [call EXCEPT !.pc = "early"])
            /\ UNCHANGED <<store, lock, hist, vote_trail>>
       ELSE /\ LockAvailable(t)
            /\ lock' = t
            /\ IF AddRejected(post_id, parent_comment_id)
               THEN /\ Push(t, call)
                    /\ UNCHANGED <<store, hist, vote_trail>>
               ELSE LET comment_id == NewCommentId
                        indexed == [c \in DOMAIN comments \cup {comment_id} |->
                                      IF c = comment_id
                                      THEN NewComment(user, content, parent_comment_id)
                                      ELSE comments[c]]
                        attached == [indexed EXCEPT
                                      ![parent_comment_id].replies =
                                          AppendReply(@, comment_id)]
                    IN
                    /\ next_comment_id' = next_comment_id + 1
                    /\ user_comments' = UserAppend(user_comments, user, comment_id)
                    /\ IF parent_comment_id = None
                       THEN /\ posts' = [posts EXCEPT ![post_id].comments =
                                                        Append(@, comment_id)]
                            /\ comments' = indexed
                       ELSE /\ posts' = posts
                            /\ comments' = AutoCollapse(attached, parent_comment_id)
                    /\ comment_ids' = Append(comment_ids, comment_id)
                    /\ Push(t, [call EXCEPT !.ret_id = comment_id])
                    /\ UNCHANGED <<next_post_id, post_ids, vote_trail>>

\* get_comments_view
GetCommentsView(t, post_id, view_type) ==
    /\ Idle(t)
    /\ LockAvailable(t)
    /\ lock' = t
    /\ LET call == [Frame("get_comments_view") EXCEPT
                      !.post_id = post_id, !.view_type = view_type]
       IN
       Push(t, IF post_id \notin DOMAIN posts THEN call
               ELSE IF view_type = "tree"
                    THEN [call EXCEPT !.ret_list = posts[post_id].comments]
               ELSE IF view_type = "flat"
                    THEN [call EXCEPT !.ret_list =
                            FlattenComments(comments, posts[post_id].comments)]
               ELSE [call EXCEPT !.exc = "ValueError"])
    /\ UNCHANGED <<store, hist, vote_trail>>

\* variant: the count never goes below zero
VoteCount_floor(vote_count, by) ==
    IF vote_count + by < 0 THEN 0 ELSE vote_count + by

\* `comment.vote_count += 1`, `comment.vote_count -= 1`
VoteCount(vote_count, by) == vote_count + by

\* upvote_comment (by = 1) and downvote_comment (by = -1)
VoteBody(t, name, comment_id, by) ==
    /\ Idle(t)
    /\ LockAvailable(t)
    /\ lock' = t
    /\ LET call == [Frame(name) EXCEPT !.comment_id = comment_id] IN
       IF comment_id \in DOMAIN comments
       THEN /\ comments' = [comments EXCEPT
                              ![comment_id].vote_count = VoteCount(@, by)]
            /\ Push(t, [call EXCEPT !.ret_ok = TRUE])
       ELSE /\ comments' = comments
            /\ Push(t, call)
    /\ UNCHANGED <<posts, user_comments, next_comment_id, next_post_id, hist>>

Vote(t, name, comment_id, by) ==
    VoteBody(t, name, comment_id, by) /\ UNCHANGED vote_trail

\* the same call, the vote written to the trail
VoteTraced(t, name, comment_id, by) ==
    /\ VoteBody(t, name, comment_id, by)
    /\ vote_trail' =
         IF comment_id \in DOMAIN comments
         THEN <<<<comment_id, comments[comment_id].vote_count, by>>>>
                  \o SubSeq(vote_trail, 1, IF vote_trail = <<>> THEN 0 ELSE 1)
         ELSE vote_trail

UpvoteComment(t, comment_id) == Vote(t, "upvote_comment", comment_id, 1)

DownvoteComment(t, comment_id) == Vote(t, "downvote_comment", comment_id, -1)

\* variant: the flag is set, never cleared
Toggled_set(collapsed) == TRUE

\* `comment.collapsed = not comment.collapsed`
Toggled(collapsed) == ~collapsed

\* toggle_collapse
ToggleCollapse(t, comment_id) ==
    /\ Idle(t)
    /\ LockAvailable(t)
    /\ lock' = t
    /\ LET call == [Frame("toggle_collapse") EXCEPT !.comment_id = comment_id] IN
       IF comment_id \in DOMAIN comments
       THEN /\ comments' = [comments EXCEPT
                              ![comment_id].collapsed = Toggled(@)]
            /\ Push(t, [call EXCEPT !.ret_ok = TRUE])
       ELSE /\ comments' = comments
            /\ Push(t, call)
    /\ UNCHANGED <<posts, user_comments, next_comment_id, next_post_id, hist,
                   vote_trail>>

\* get_user_comments: self.comments[comment_id] for each id of the user's list
GetUserComments(t, user) ==
    /\ Idle(t)
    /\ LockAvailable(t)
    /\ lock' = t
    /\ LET call == [Frame("get_user_comments") EXCEPT !.user = user] IN
       Push(t, IF user \notin DOMAIN user_comments THEN call
               ELSE IF \E i \in 1..Len(user_comments[user]) :
                          user_comments[user][i] \notin DOMAIN comments
                    THEN [call EXCEPT !.exc = "KeyError"]
               ELSE [call EXCEPT !.ret_list = user_comments[user]])
    /\ UNCHANGED <<store, hist, vote_trail>>

\* variant: the comment stays in its list
Detach_skip(ps, cs, comment_id) == <<ps, cs>>

\* delete_comment, lines 174-184: take the comment out of the first post
\* whose list holds it, or out of its parent's reply list
Detach(ps, cs, comment_id) ==
    LET parent == cs[comment_id].parent_comment_id IN
    IF parent = None
    THEN LET holders == {p \in DOMAIN ps : Contains(ps[p].comments, comment_id)} IN
         IF holders = {} THEN <<ps, cs>>
         ELSE LET first == CHOOSE p \in holders : \A q \in holders : p <= q IN
              <<[ps EXCEPT ![first].comments = RemoveFirst(@, comment_id)], cs>>
    ELSE <<ps, [cs EXCEPT ![parent].replies = RemoveFirst(@, comment_id)]>>

\* variant: the author's list keeps the id
UserRemove_skip(uc, user, comment_id) == uc

\* delete_comment, lines 186-187
UserRemove(uc, user, comment_id) ==
    IF user \in DOMAIN uc /\ Contains(uc[user], comment_id)
    THEN [uc EXCEPT ![user] = RemoveFirst(@, comment_id)]
    ELSE uc

\* delete_comment from the `with` line to the loop over a copy of the
\* replies (lines 170-189), the lock being held
DeleteBegin(t, comment_id) ==
    LET call == [Frame("delete_comment") EXCEPT !.comment_id = comment_id] IN
    IF comment_id \notin DOMAIN comments
    THEN /\ Push(t, call)
         /\ UNCHANGED <<posts, comments, user_comments>>
    ELSE LET comment == comments[comment_id] IN
         IF comment.parent_comment_id # None
            /\ comment.parent_comment_id \notin DOMAIN comments
         THEN /\ Push(t, [call EXCEPT !.exc = "KeyError"])
              /\ UNCHANGED <<posts, comments, user_comments>>
         ELSE LET detached == Detach(posts, comments, comment_id) IN
              /\ posts' = detached[1]
              /\ comments' = detached[2]
              /\ user_comments' = UserRemove(user_comments, comment.user, comment_id)
              /\ Push(t, [call EXCEPT !.pc = "loop", !.rest = comment.replies])

\* delete_comment
DeleteComment(t, comment_id) ==
    /\ Idle(t)
    /\ LockAvailable(t)
    /\ lock' = t
    /\ DeleteBegin(t, comment_id)
    /\ UNCHANGED <<next_comment_id, next_post_id, hist, vote_trail>>

\* delete_comment, lines 190-195: the next reply is deleted by a nested
\* call of delete_comment, which starts by acquiring the lock; after the
\* last reply the comment leaves the index and the call returns True
DeleteLoop(t) ==
    /\ ~Idle(t)
    /\ Top(t).name = "delete_comment"
    /\ Top(t).pc = "loop"
    /\ IF Top(t).rest = <<>>
       THEN /\ comments' = [c \in DOMAIN comments \ {Top(t).comment_id} |->
                              comments[c]]
            /\ SetTop(t, [Top(t) EXCEPT !.pc = "ret", !.ret_ok = TRUE])
            /\ UNCHANGED <<posts, user_comments, lock>>
       ELSE /\ LockAvailable(t)
            /\ lock' = t
            /\ DeleteBegin(t, Head(Top(t).rest))
    /\ UNCHANGED <<next_comment_id, next_post_id, hist, vote_trail>>

(* --------------------------- specifications --------------------------- *)
PostIds == 1..MaxPosts
CommentIds == 1..MaxComments
ValidUsers == {"alice", "bob"}

\* the environment stops creating once the bounded ids are used up, and
\* stops voting at the bound
MayAdd(post_id, user, content, parent_comment_id, max) ==
    (~InputInvalid(user, content) /\ ~AddRejected(post_id, parent_comment_id))
        => next_comment_id <= max

MayVote(comment_id, by) ==
    comment_id \in DOMAIN comments =>
        (comments[comment_id].vote_count + by) \in (-MaxVote)..MaxVote

\* the comments the votes and toggles of Spec and SpecChain aim at
Marked == {1}
ViewTypes == {"tree", "flat", "grid"}

Next ==
    \E t \in Threads :
        \/ next_post_id <= MaxPosts /\ CreatePost(t, Title)
        \/ \E p \in PostIds, u \in ValidUsers, par \in {None} \cup CommentIds :
              MayAdd(p, u, Text, par, MaxComments) /\ AddComment(t, p, u, Text, par)
        \/ AddComment(t, 1, "", Text, None)
        \/ \E p \in PostIds, v \in ViewTypes : GetCommentsView(t, p, v)
        \/ \E c \in Marked : MayVote(c, 1) /\ UpvoteComment(t, c)
        \/ \E c \in Marked : MayVote(c, -1) /\ DownvoteComment(t, c)
        \/ \E c \in Marked : ToggleCollapse(t, c)
        \/ \E u \in ValidUsers : GetUserComments(t, u)
        \/ \E c \in CommentIds : DeleteComment(t, c)
        \/ DeleteLoop(t)
        \/ Return(t)

Spec == Init /\ [][Next]_vars

\* One thread, one post, one author: every operation, every rejection
\* cause of add_comment, and reply chains as deep as the code lets them grow.
Blank == <<" ", "\t">>
ChainIds == 1..MaxChainComments
ChainAdds ==
    {<<1, "alice", Text, par>> : par \in {None} \cup ChainIds}
        \cup {<<2, "alice", Text, None>>, <<1, "", Text, None>>,
              <<1, "alice", <<>>, None>>, <<1, "alice", Blank, 1>>}

NextChain ==
    \/ posts = <<>> /\ CreatePost("t1", Title)
    \/ \E a \in ChainAdds :
          /\ MayAdd(a[1], a[2], a[3], a[4], MaxChainComments)
          /\ AddComment("t1", a[1], a[2], a[3], a[4])
    \/ \E c \in Marked : MayVote(c, 1) /\ UpvoteComment("t1", c)
    \/ \E c \in Marked : MayVote(c, -1) /\ DownvoteComment("t1", c)
    \/ \E c \in Marked : ToggleCollapse("t1", c)
    \/ \E c \in ChainIds : DeleteComment("t1", c)
    \/ DeleteLoop("t1")
    \/ Return("t1")

SpecChain == Init /\ [][NextChain]_vars

\* One thread that only adds comments, never deletes and never toggles:
\* long threads under comments 1 and 2.
ThreadParents == {None, 1, 2}

NextThread ==
    \/ posts = <<>> /\ CreatePost("t1", Title)
    \/ \E par \in ThreadParents :
          /\ MayAdd(1, "alice", Text, par, MaxThreadComments)
          /\ AddComment("t1", 1, "alice", Text, par)
    \/ Return("t1")

SpecThread == Init /\ [][NextThread]_vars

\* One thread that adds to two posts, toggles any comment and reads the
\* views; nothing is deleted.
ViewIds == 1..MaxViewComments

NextView ==
    \/ next_post_id <= MaxPosts /\ CreatePost("t1", Title)
    \/ \E p \in PostIds, par \in {None} \cup ViewIds :
          /\ MayAdd(p, "alice", Text, par, MaxViewComments)
          /\ AddComment("t1", p, "alice", Text, par)
    \/ \E c \in ViewIds : ToggleCollapse("t1", c)
    \/ \E p \in PostIds, v \in ViewTypes : GetCommentsView("t1", p, v)
    \/ Return("t1")

SpecView == Init /\ [][NextView]_vars

\* One thread, one post: votes and toggles on any comment next to additions
\* and deletions, the votes traced.
NextVote ==
    \/ posts = <<>> /\ CreatePost("t1", Title)
    \/ \E par \in {None} \cup CommentIds :
          /\ MayAdd(1, "alice", Text, par, MaxComments)
          /\ AddComment("t1", 1, "alice", Text, par)
    \/ \E c \in CommentIds :
          MayVote(c, 1) /\ VoteTraced("t1", "upvote_comment", c, 1)
    \/ \E c \in CommentIds :
          MayVote(c, -1) /\ VoteTraced("t1", "downvote_comment", c, -1)
    \/ \E c \in CommentIds : ToggleCollapse("t1", c)
    \/ \E c \in CommentIds : DeleteComment("t1", c)
    \/ DeleteLoop("t1")
    \/ Return("t1")

SpecVote == Init /\ [][NextVote]_vars

\* Two threads on one post: replies to the first comments against their
\* deletion.
NextRace ==
    \E t \in Threads :
        \/ posts = <<>> /\ CreatePost(t, Title)
        \/ \E par \in {None} \cup CommentIds :
              /\ MayAdd(1, "alice", Text, par, MaxRaceComments)
              /\ AddComment(t, 1, "alice", Text, par)
        \/ \E c \in CommentIds : DeleteComment(t, c)
        \/ DeleteLoop(t)
        \/ Return(t)

SpecRace == Init /\ [][NextRace]_vars

\* One thread, one post: a long thread under comment 1, which is toggled,
\* voted on and deleted as well.
NextExpand ==
    \/ posts = <<>> /\ CreatePost("t1", Title)
    \/ \E par \in {None} \cup Marked :
          /\ MayAdd(1, "alice", Text, par, MaxExpandComments)
          /\ AddComment("t1", 1, "alice", Text, par)
    \/ \E c \in Marked : ToggleCollapse("t1", c)
    \/ \E c \in Marked : MayVote(c, 1) /\ UpvoteComment("t1", c)
    \/ \E c \in Marked : MayVote(c, -1) /\ DownvoteComment("t1", c)
    \/ \E c \in CommentIds : DeleteComment("t1", c)
    \/ DeleteLoop("t1")
    \/ Return("t1")

SpecExpand == Init /\ [][NextExpand]_vars

\* a thread that is inside a call and not waiting for the lock keeps running
FairSpec == Spec /\ \A t \in Threads : WF_vars(DeleteLoop(t) \/ Return(t))

(* ------------------------- auxiliary definitions ---------------------- *)
OccIn(s, x) == Cardinality({i \in 1..Len(s) : s[i] = x})
InUserLists(c) == \E u \in DOMAIN user_comments : Contains(user_comments[u], c)
InPostLists(c) == \E p \in DOMAIN posts : Contains(posts[p].comments, c)
InReplyLists(c) == \E d \in DOMAIN comments : Contains(comments[d].replies, c)

\* c is a proper ancestor of d along the parent links kept in the index
RECURSIVE HasAncestor(_, _)
HasAncestor(d, c) ==
    /\ d \in DOMAIN comments
    /\ comments[d].parent_comment_id # None
    /\ \/ comments[d].parent_comment_id = c
       \/ HasAncestor(comments[d].parent_comment_id, c)

\* the ids met from a list of comments down through the reply lists
RECURSIVE TreeIds(_)
TreeIds(ids) ==
    IF ids = <<>> THEN {}
    ELSE {Head(ids)}
         \cup (IF Head(ids) \in DOMAIN comments
               THEN TreeIds(comments[Head(ids)].replies) ELSE {})
         \cup TreeIds(Tail(ids))

\* the ids of a set in increasing order
RECURSIVE Sorted(_)
Sorted(S) ==
    IF S = {} THEN <<>>
    ELSE LET m == CHOOSE x \in S : \A y \in S : x <= y IN
         <<m>> \o Sorted(S \ {m})

Calling(t, name) == ~Idle(t) /\ Top(t).name = name
Returning(t, name) == Calling(t, name) /\ Top(t).pc \in {"ret", "early"}

(* ------------------------------- claims ------------------------------- *)
\* C1: every call of a public operation runs to completion and leaves the
\* lock released by its thread; in particular delete_comment on a comment
\* that has a reply returns.
C1_EveryCallCompletes ==
    \A t \in Threads : (~Idle(t)) ~> (Idle(t) /\ lock # t)

\* C2: delete_comment(c) on an indexed comment returns true with c and every
\* transitive reply of c out of the index, out of the user lists and out of
\* the post and reply lists.
DeletedWithReplies(c) ==
    /\ c \notin DOMAIN comments
    /\ \A d \in DOMAIN comments : ~HasAncestor(d, c)
    /\ ~InUserLists(c) /\ ~InPostLists(c) /\ ~InReplyLists(c)

C2_CascadeDelete ==
    \A t \in Threads : \A c \in CommentIds :
        (Calling(t, "delete_comment") /\ stack[t][1].comment_id = c
            /\ stack[t][1].pc = "loop")
        ~> (Returning(t, "delete_comment") /\ Top(t).ret_ok /\ Len(stack[t]) = 1
            /\ DeletedWithReplies(c))

\* the number of parent hops from c up to a comment without parent
RECURSIVE Hops(_)
Hops(c) ==
    IF c \notin DOMAIN comments \/ comments[c].parent_comment_id = None THEN 0
    ELSE 1 + Hops(comments[c].parent_comment_id)

\* C3: every indexed comment is at most 4 parent hops below a comment
\* without parent; a reply to an indexed parent of depth 0..3 in a known
\* post is accepted one level below it, a reply to a parent of depth 4 is
\* rejected.
C3_DepthCap ==
    /\ \A c \in DOMAIN comments : Hops(c) <= 4
    /\ \A t \in Threads :
         (/\ Returning(t, "add_comment")
          /\ Top(t).pc = "ret"
          /\ Top(t).post_id \in DOMAIN posts
          /\ Top(t).parent_comment_id \in DOMAIN comments)
         => LET parent == Top(t).parent_comment_id
                reply == Top(t).ret_id
            IN IF Hops(parent) >= 4 THEN reply = None
               ELSE /\ reply \in DOMAIN comments
                    /\ comments[reply].parent_comment_id = parent
                    /\ Hops(reply) = Hops(parent) + 1

C3_Witness ==
    /\ \E c \in DOMAIN comments : Hops(c) = 4
    /\ \E t \in Threads :
         /\ Returning(t, "add_comment")
         /\ Top(t).parent_comment_id \in DOMAIN comments
         /\ Hops(Top(t).parent_comment_id) = 4
         /\ Top(t).ret_id = None

\* C4: an add_comment call with an empty user, an empty or whitespace-only
\* content, an unknown post, an unknown parent or a parent of depth 4 or
\* more returns None and changes nothing of the store (no id is consumed);
\* and a call that returns None has changed nothing.
RejectionCause(f) ==
    \/ f.user = ""
    \/ \A i \in 1..Len(f.content) : f.content[i] \in Whitespace
    \/ f.post_id \notin DOMAIN posts
    \/ /\ f.parent_comment_id # None
       /\ \/ f.parent_comment_id \notin DOMAIN comments
          \/ Hops(f.parent_comment_id) >= 4

C4_RejectedAddNoMutation ==
    [][\A t \in Threads :
          (Idle(t) /\ Calling(t, "add_comment")') =>
             /\ RejectionCause(Top(t)') => Top(t)'.ret_id = None
             /\ Top(t)'.ret_id = None =>
                   /\ store' = store
                   /\ comment_ids' = comment_ids]_vars

C4_Witness ==
    \E t \in Threads :
        /\ Returning(t, "add_comment")
        /\ Top(t).user # "" /\ Top(t).content = Blank
        /\ Top(t).parent_comment_id \in DOMAIN comments
        /\ Top(t).ret_id = None
        /\ next_comment_id = 3

\* C5: while the lock is free every indexed comment is an element of exactly
\* one list, once: of one post's list if it has no parent, of its parent's
\* reply list otherwise; and every comment met from the posts down through
\* the reply lists is indexed.
C5_OnePlaceInTree ==
    lock = Free =>
        /\ \A c \in DOMAIN comments :
             LET par == comments[c].parent_comment_id IN
             IF par = None
             THEN /\ Cardinality({p \in DOMAIN posts :
                                    Contains(posts[p].comments, c)}) = 1
                  /\ \A p \in DOMAIN posts : OccIn(posts[p].comments, c) <= 1
                  /\ ~InReplyLists(c)
             ELSE /\ par \in DOMAIN comments
                  /\ OccIn(comments[par].replies, c) = 1
                  /\ \A d \in DOMAIN comments \ {par} :
                        ~Contains(comments[d].replies, c)
                  /\ ~InPostLists(c)
        /\ \A p \in DOMAIN posts : TreeIds(posts[p].comments) \subseteq DOMAIN comments

C5_Witness ==
    /\ lock = Free
    /\ Cardinality(DOMAIN comments) = 2
    /\ \E c \in DOMAIN comments : comments[c].parent_comment_id # None
    /\ \E p \in DOMAIN posts : p # 1 /\ posts[p].comments # <<>>

\* C6: while the lock is free user_comments[u] lists, in increasing order and
\* without duplicates, exactly the indexed comments whose author is u, and
\* get_user_comments(u) returns that list (the empty one for an unknown user).
AuthoredBy(u) == {c \in DOMAIN comments : comments[c].user = u}

C6_UserIndex ==
    /\ lock = Free =>
         /\ \A u \in DOMAIN user_comments : user_comments[u] = Sorted(AuthoredBy(u))
         /\ \A c \in DOMAIN comments : comments[c].user \in DOMAIN user_comments
    /\ \A t \in Threads :
         Returning(t, "get_user_comments") =>
            /\ Top(t).exc = ""
            /\ Top(t).ret_list = Sorted(AuthoredBy(Top(t).user))

C6_Witness ==
    \E t \in Threads :
        /\ Returning(t, "get_user_comments")
        /\ Top(t).ret_list = <<2>>
        /\ 1 \notin DOMAIN comments
        /\ \E u \in DOMAIN user_comments : user_comments[u] = <<>>

\* C7: the ids add_comment returns start at 1 and each is greater than every
\* id returned before, also after comments have been deleted.
C7_IdsNeverReused ==
    /\ \A i, j \in 1..Len(comment_ids) : i < j => comment_ids[i] < comment_ids[j]
    /\ comment_ids # <<>> => comment_ids[1] = 1
    /\ \A t \in Threads :
         (Returning(t, "add_comment") /\ Top(t).ret_id # None) =>
            /\ Top(t).ret_id = comment_ids[Len(comment_ids)]
            /\ Top(t).ret_id \in DOMAIN comments

C7_Witness ==
    \E t \in Threads :
        /\ Returning(t, "add_comment")
        /\ Top(t).ret_id = 2
        /\ DOMAIN comments = {2}

\* C8: create_post never rejects, and the k-th create_post to take the lock
\* returns id k, whichever thread makes it.
C8_PostIds ==
    /\ \A i \in 1..Len(post_ids) : post_ids[i] = i
    /\ \A t \in Threads :
         Calling(t, "create_post") =>
            /\ Top(t).pc = "ret" /\ Top(t).exc = ""
            /\ Top(t).ret_id = Len(post_ids)
            /\ Top(t).ret_id \in DOMAIN posts
            /\ posts[Top(t).ret_id] = NewPost(Title)

C8_Witness ==
    /\ Returning("t2", "create_post")
    /\ Top("t2").ret_id = 2
    /\ Returning("t1", "add_comment")

\* the transitive replies of c, by the parent links
Descendants(c) == {d \in DOMAIN comments : HasAncestor(d, c)}

\* how many transitive replies c had when its latest direct reply was added
\* (ids grow with time, and nothing is deleted in SpecThread)
CountAtLastReply(c) ==
    LET rs == comments[c].replies IN
    IF rs = <<>> THEN 0
    ELSE Cardinality({d \in Descendants(c) : d <= rs[Len(rs)]})

\* C9 as claimed: without toggles, collapsed is true once 11 replies were
\* added to the comment directly and false while 10 or fewer were.
C9_Original ==
    \A c \in DOMAIN comments :
        comments[c].collapsed <=> Len(comments[c].replies) >= 11

\* C9 as amended: without toggles and deletions, collapsed is true once 11
\* replies were added to the comment directly, and false while the comment
\* has 10 or fewer replies in all, direct and nested.
C9_CollapseThreshold ==
    \A c \in DOMAIN comments :
        /\ Len(comments[c].replies) >= 11 => comments[c].collapsed
        /\ Cardinality(Descendants(c)) <= 10 => ~comments[c].collapsed

C9_Witness ==
    \E c \in DOMAIN comments :
        /\ Len(comments[c].replies) = 11
        /\ Cardinality(Descendants(c)) = 11
        /\ comments[c].collapsed

\* C10 as claimed: without toggles and deletions, every comment with more
\* than 10 transitive replies is collapsed.
C10_Original ==
    \A c \in DOMAIN comments :
        Cardinality(Descendants(c)) > 10 => comments[c].collapsed

\* C10 as amended: without toggles and deletions, the collapsed comments are
\* exactly those that had more than 10 transitive replies when a reply was
\* last added to them directly.
C10_CollapseOnDirectReply ==
    \A c \in DOMAIN comments :
        comments[c].collapsed <=> CountAtLastReply(c) > 10

C10_Witness ==
    \E c \in DOMAIN comments :
        /\ comments[c].collapsed
        /\ Len(comments[c].replies) = 2
        /\ Cardinality(Descendants(c)) = 11

\* the place of x in a list that holds it
PosIn(s, x) == CHOOSE i \in 1..Len(s) : s[i] = x

\* the positions that lead from the top-level list of post p down to c
RECURSIVE Path(_, _)
Path(p, c) ==
    LET par == comments[c].parent_comment_id IN
    IF par = None THEN <<PosIn(posts[p].comments, c)>>
    ELSE Append(Path(p, par), PosIn(comments[par].replies, c))

\* a comes before b in a pre-order walk: a is a prefix of b, or a turns to
\* an earlier sibling where the two paths part
Before(a, b) ==
    \/ Len(a) < Len(b) /\ \A i \in 1..Len(a) : a[i] = b[i]
    \/ \E i \in 1..Len(a) :
          /\ i <= Len(b) /\ a[i] < b[i]
          /\ \A j \in 1..(i - 1) : a[j] = b[j]

\* the comments of post p that no collapsed ancestor hides
Shown(p) ==
    {c \in TreeIds(posts[p].comments) :
        \A a \in DOMAIN comments : HasAncestor(c, a) => ~comments[a].collapsed}

\* f lists the shown comments of post p once each, parents before replies,
\* siblings in insertion order
IsFlatViewOf(f, p) ==
    /\ {f[i] : i \in 1..Len(f)} = Shown(p)
    /\ Len(f) = Cardinality(Shown(p))
    /\ \A i, j \in 1..Len(f) : i < j => Before(Path(p, f[i]), Path(p, f[j]))

\* C11: get_comments_view(post, "flat") on a known post returns the pre-order
\* walk of the post's tree in insertion order without the replies of
\* collapsed comments; the hidden replies stay in the tree and in the index,
\* and the call changes nothing of the store.
C11_FlatView ==
    [][\A t \in Threads :
          (/\ Idle(t) /\ Calling(t, "get_comments_view")'
           /\ Top(t)'.view_type = "flat"
           /\ Top(t)'.post_id \in DOMAIN posts)
          => /\ Top(t)'.exc = ""
             /\ IsFlatViewOf(Top(t)'.ret_list, Top(t)'.post_id)
             /\ TreeIds(posts[Top(t)'.post_id].comments) \subseteq DOMAIN comments
             /\ store' = store]_vars

C11_Witness ==
    \E t \in Threads : \E c \in DOMAIN comments :
        /\ Returning(t, "get_comments_view")
        /\ Top(t).view_type = "flat"
        /\ Contains(Top(t).ret_list, c)
        /\ comments[c].parent_comment_id # None
        /\ comments[c].collapsed
        /\ comments[c].replies # <<>>
        /\ ~Contains(Top(t).ret_list, comments[c].replies[1])

\* the flat view of post p over the index cs
FlatOf(ps, cs, p) == FlattenComments(cs, ps[p].comments)

\* s with x put in behind its first k elements
InsertAfter(s, k, x) == SubSeq(s, 1, k) \o <<x>> \o SubSeq(s, k + 1, Len(s))

\* t's step is an add_comment call that created a reply
AddsReply(t) ==
    /\ Idle(t) /\ Calling(t, "add_comment")'
    /\ Top(t)'.ret_id # None
    /\ Top(t)'.parent_comment_id # None

\* C12 as claimed: every add_comment that creates a reply makes the flat view
\* of the post one longer, the reply standing immediately after its parent.
C12_Original ==
    [][\A t \in Threads :
          AddsReply(t) =>
             LET old == FlatOf(posts, comments, Top(t)'.post_id)
                 new == FlatOf(posts', comments', Top(t)'.post_id)
             IN /\ Len(new) = Len(old) + 1
                /\ \E i \in 1..(Len(new) - 1) :
                      /\ new[i] = Top(t)'.parent_comment_id
                      /\ new[i + 1] = Top(t)'.ret_id]_vars

\* C12 as amended: an add_comment that creates a reply whose parent is
\* listed in the flat view of the post and is not collapsed after the call
\* makes that flat view one longer: the reply is put in behind its parent
\* and the listed subtrees of the parent's earlier replies, the rest of the
\* view keeping its order.
C12_ReplyInFlatView ==
    [][\A t \in Threads :
          (/\ AddsReply(t)
           /\ Contains(FlatOf(posts, comments, Top(t)'.post_id),
                       Top(t)'.parent_comment_id)
           /\ ~comments'[Top(t)'.parent_comment_id].collapsed)
          => LET parent == Top(t)'.parent_comment_id
                 old == FlatOf(posts, comments, Top(t)'.post_id)
                 new == FlatOf(posts', comments', Top(t)'.post_id)
                 earlier == FlattenComments(comments, comments[parent].replies)
             IN /\ Len(new) = Len(old) + 1
                /\ new = InsertAfter(old, PosIn(old, parent) + Len(earlier),
                                     Top(t)'.ret_id)]_vars

\* reply 4 was added to comment 1, which had reply 3 already: it stands
\* behind 3 and before the later top-level comment 2
C12_Witness ==
    \E t \in Threads :
        /\ Returning(t, "add_comment")
        /\ Top(t).ret_id = 4
        /\ Top(t).parent_comment_id = 1
        /\ FlatOf(posts, comments, Top(t).post_id) = <<1, 3, 4, 2>>

\* C13: a call raises an error exactly when it is get_comments_view with a
\* view_type other than "tree" and "flat", whatever its post_id; and
\* get_comments_view of an unknown post with a valid view_type returns the
\* empty sequence.
C13_ViewTypeError ==
    \A t \in Threads : \A i \in 1..Len(stack[t]) :
        LET f == stack[t][i] IN
        /\ f.exc # "" <=> (/\ f.name = "get_comments_view"
                           /\ f.view_type \notin {"tree", "flat"})
        /\ (/\ f.name = "get_comments_view"
            /\ f.view_type \in {"tree", "flat"}
            /\ f.post_id \notin DOMAIN posts) => f.ret_list = <<>>

\* the latest two votes were an upvote and a downvote, in either order, on
\* the same comment, which is still indexed
VotedBothWays(c) ==
    /\ Len(vote_trail) = 2
    /\ vote_trail[1][1] = c /\ vote_trail[2][1] = c
    /\ vote_trail[1][3] = -vote_trail[2][3]
    /\ c \in DOMAIN comments

\* C14: after an upvote followed by a downvote of a comment, or a downvote
\* followed by an upvote, its vote_count is what it was before the two, from
\* zero and from a negative count too; a downvote at 0 gives -1.
C14_VoteRoundTrip ==
    \A c \in DOMAIN comments :
        /\ VotedBothWays(c) => comments[c].vote_count = vote_trail[2][2]
        /\ (/\ vote_trail # <<>>
            /\ vote_trail[1] = <<c, 0, -1>>) => comments[c].vote_count = -1

\* an upvote at -1 and then a downvote at 0, which gave -1 again
C14_Witness ==
    \E c \in DOMAIN comments :
        /\ vote_trail = <<<<c, 0, -1>>, <<c, -1, 1>>>>
        /\ comments[c].vote_count = -1

\* C15: add_comment of a reply and delete_comment of its parent never
\* interleave inside their bodies: every indexed comment with a parent id has
\* that parent in the index, and an add_comment call that names a parent
\* either created the reply under the still indexed parent or, the user,
\* content, post and depth being fine, found the parent gone and returned
\* None.
C15_ReplyAtomicWithDelete ==
    /\ \A c \in DOMAIN comments :
          comments[c].parent_comment_id # None =>
             comments[c].parent_comment_id \in DOMAIN comments
    /\ \A t \in Threads :
          (/\ Returning(t, "add_comment") /\ Top(t).pc = "ret"
           /\ Top(t).parent_comment_id # None
           /\ Top(t).post_id \in DOMAIN posts)
          => LET parent == Top(t).parent_comment_id IN
             IF Top(t).ret_id # None
             THEN /\ parent \in DOMAIN comments
                  /\ Contains(comments[parent].replies, Top(t).ret_id)
                  /\ comments[Top(t).ret_id].parent_comment_id = parent
             ELSE parent \notin DOMAIN comments \/ Hops(parent) >= 4

\* a reply to a comment that another call has deleted is rejected
C15_Witness ==
    \E t \in Threads :
        /\ Returning(t, "add_comment") /\ Top(t).pc = "ret"
        /\ Top(t).post_id \in DOMAIN posts
        /\ Contains(comment_ids, Top(t).parent_comment_id)
        /\ Top(t).parent_comment_id \notin DOMAIN comments
        /\ Top(t).ret_id = None
        /\ comments # <<>>

\* C16: an add_comment call changes the collapsed flag of no comment but
\* the direct parent of the comment it created, and that one only from
\* false to true: no flag goes back to false, no grandparent or higher
\* ancestor is touched, nothing changes when the new comment is top-level.
C16_CollapseOnlyParent ==
    [][\A t \in Threads :
          (Idle(t) /\ Calling(t, "add_comment")') =>
             \A c \in DOMAIN comments :
                comments'[c].collapsed # comments[c].collapsed =>
                   /\ Top(t)'.ret_id # None
                   /\ c = Top(t)'.parent_comment_id
                   /\ ~comments[c].collapsed
                   /\ comments'[c].collapsed]_vars

\* a reply was just added two levels below a comment that has more than 10
\* transitive replies and is not collapsed
C16_Witness ==
    \E t \in Threads :
        /\ Returning(t, "add_comment")
        /\ Top(t).ret_id # None
        /\ Top(t).parent_comment_id \in DOMAIN comments
        /\ LET g == comments[Top(t).parent_comment_id].parent_comment_id IN
           /\ g \in DOMAIN comments
           /\ Cardinality(Descendants(g)) > CollapseThreshold
           /\ ~comments[g].collapsed

\* C17: a call that returns or raises leaves the lock released: a thread
\* outside a call never holds it, the exit of a call that took the lock
\* (a rejection, a false or empty result, the ValueError of
\* get_comments_view) leaves it free for any thread, and the early rejection
\* of add_comment, which never took it, leaves it as it was.
C17_LockReleasedOnExit ==
    [][\A t \in Threads :
          /\ Idle(t) => lock # t
          /\ (~Idle(t) /\ Idle(t)') =>
                /\ Top(t).pc = "ret" => lock = t /\ lock' = Free
                /\ Top(t).pc = "early" => lock # t /\ lock' = lock]_vars

\* one thread is at the raise of ValueError with the lock held while the
\* other is at the early rejection of add_comment
C17_Witness ==
    \E t, u \in Threads :
        /\ Returning(t, "get_comments_view")
        /\ Top(t).exc = "ValueError"
        /\ lock = t
        /\ Returning(u, "add_comment")
        /\ Top(u).pc = "early"

\* what a successful call of the named operation makes of comment r
Touched(name, r) ==
    IF name = "upvote_comment" THEN [r EXCEPT !.vote_count = r.vote_count + 1]
    ELSE IF name = "downvote_comment"
         THEN [r EXCEPT !.vote_count = r.vote_count - 1]
    ELSE [r EXCEPT !.collapsed = (r.collapsed = FALSE)]

\* C18: upvote_comment, downvote_comment and toggle_collapse on an id that
\* is not indexed (never given, or deleted) return false and change nothing;
\* on an indexed id they return true, change that comment's vote_count by
\* exactly +1 or -1, or invert its collapsed flag, and leave every other
\* field, every other comment, the lists and the counters as they were.
C18_VoteToggleEffect ==
    [][\A t \in Threads :
          (/\ Idle(t) /\ ~Idle(t)'
           /\ Top(t)'.name \in {"upvote_comment", "downvote_comment",
                                 "toggle_collapse"})
          => LET c == Top(t)'.comment_id IN
             IF c \notin DOMAIN comments
             THEN ~Top(t)'.ret_ok /\ store' = store
             ELSE /\ Top(t)'.ret_ok
                  /\ comments' = [comments EXCEPT
                                    ![c] = Touched(Top(t)'.name, @)]
                  /\ posts' = posts /\ user_comments' = user_comments
                  /\ next_comment_id' = next_comment_id
                  /\ next_post_id' = next_post_id]_vars

\* a vote on a deleted comment returned false, after a vote that counted
C18_Witness ==
    \E t \in Threads :
        /\ Returning(t, "downvote_comment")
        /\ ~Top(t).ret_ok
        /\ Contains(comment_ids, Top(t).comment_id)
        /\ Top(t).comment_id \notin DOMAIN comments
        /\ comments # <<>>
        /\ vote_trail # <<>>

\* C19: the comment an add_comment(post_id = P, ...) call has created is met
\* from P's top-level list down through the reply lists and from no other
\* post's list, and with nothing collapsed it is in the flat view of P and
\* of no other post, whichever post its parent was created under (stated
\* for the moment the creating call returns).
C19_UnderItsPost ==
    \A t \in Threads :
        (Returning(t, "add_comment") /\ Top(t).ret_id # None) =>
           LET c == Top(t).ret_id
               P == Top(t).post_id
           IN /\ c \in TreeIds(posts[P].comments)
              /\ \A q \in DOMAIN posts \ {P} : c \notin TreeIds(posts[q].comments)
              /\ (\A d \in DOMAIN comments : ~comments[d].collapsed) =>
                    /\ Contains(FlatOf(posts, comments, P), c)
                    /\ \A q \in DOMAIN posts \ {P} :
                          ~Contains(FlatOf(posts, comments, q), c)

\* t's step is a call of toggle_collapse on c
TogglesIt(t, c) ==
    /\ Idle(t) /\ Calling(t, "toggle_collapse")'
    /\ Top(t)'.comment_id = c

\* t's step is an add_comment call that created a direct reply to c
RepliesTo(t, c) ==
    /\ Idle(t) /\ Calling(t, "add_comment")'
    /\ Top(t)'.ret_id # None
    /\ Top(t)'.parent_comment_id = c

\* c is expanded with more than 10 replies.  Under SpecExpand every reply
\* in a thread is a direct one, so c was auto-collapsed by the latest reply
\* that left it with more than 10 and has been expanded by toggle_collapse
\* since.
ReExpanded(c) ==
    /\ c \in DOMAIN comments
    /\ Len(comments[c].replies) > CollapseThreshold
    /\ ~comments[c].collapsed

\* C20 as claimed: the flag of a comment that toggle_collapse has expanded
\* again after an auto-collapse stays false until the next toggle_collapse
\* on that comment, whatever other call is made.
C20_Original ==
    [][\A c \in CommentIds :
          (ReExpanded(c) /\ c \in DOMAIN comments' /\ comments'[c].collapsed)
          => \E t \in Threads : TogglesIt(t, c)]_vars

\* C20 as amended: the flag of an expanded comment, one that toggle_collapse
\* has expanded again after an auto-collapse included, stays false until the
\* next toggle_collapse on it or the next add_comment of a direct reply that
\* leaves it with more than 10 transitive replies, which collapses it again;
\* votes, deletions and add_comment calls elsewhere leave it false.
C20_ExpandedUntilReply ==
    [][\A c \in DOMAIN comments :
          /\ (~comments[c].collapsed /\ c \in DOMAIN comments'
                 /\ comments'[c].collapsed)
             => \E t \in Threads :
                   \/ TogglesIt(t, c)
                   \/ /\ RepliesTo(t, c)
                      /\ CountTotalReplies(comments', c) > CollapseThreshold
          /\ \A t \in Threads :
                (RepliesTo(t, c)
                    /\ CountTotalReplies(comments', c) > CollapseThreshold)
                => comments'[c].collapsed]_vars

\* comment 1, expanded again with 11 replies, has stayed expanded through
\* an add_comment of a top-level comment
C20_Witness ==
    /\ ReExpanded(1)
    /\ Returning("t1", "add_comment")
    /\ Top("t1").ret_id # None
    /\ Top("t1").parent_comment_id = None
====
